---- MODULE Spec2Model ----
(***************************************************************************)
(* A model of the Morpha bootstrap runtime (src/c/morpha.h, morpha.c).     *)
(*                                                                         *)
(* The state is one MPH_runtime (rt), the caller's backing stores (mem),   *)
(* the caller's MPH_result (ret), and the position of the caller in the    *)
(* driver loop documented in morpha.h.  Every library function is an       *)
(* operator from its arguments to the runtime, the stores, the result and  *)
(* the set of arena indices it touched; every action is one call.          *)
(***************************************************************************)
EXTENDS Integers, Sequences, FiniteSets, TLC

\* ------------------------------------------------------------------ bounds
\* Length in words of each backing store the caller owns.
StoreLen == 4
\* Largest position the caller assigns to rt.pos / finds in ret.data.
MaxPos == 3
\* Largest word value found in a backing store.
MaxWord == 1
\* Largest rule length (number of condition/action pairs).
MaxLen == 2
\* Largest operand count given in an MPH_morph.
MaxArgs == 2
\* Largest cell size.
MaxCell == 1
\* Cap of the driver loop's call counter.
MaxSteps == 3

\* ------------------------------------------------- morpha.h: enumerations
MPH_OK == 0
MPH_HALT == 1
MPH_TOTALITY_FAULT == 2
MPH_MEM_LOW == 3

MPH_result_kind == {MPH_OK, MPH_HALT, MPH_TOTALITY_FAULT, MPH_MEM_LOW}

MPH_OP_SUB == 0
MPH_OP_ADD == 1
MPH_OP_CMP == 2
MPH_OP_JMP == 3
MPH_OP_OFFSET == 4

MPH_op == {MPH_OP_SUB, MPH_OP_ADD, MPH_OP_CMP, MPH_OP_JMP, MPH_OP_OFFSET}

\* Number of following values an operator consumes.
Arity(op) == IF op \in {MPH_OP_SUB, MPH_OP_ADD, MPH_OP_CMP} THEN 2 ELSE 1

\* ------------------------------------------------------------ value spaces
\* Identities of the caller's backing stores (the MPH_raw* values).
Raws == {1, 2}
Words == 0 .. MaxWord
Positions == 0 .. MaxPos
Store == [0 .. StoreLen - 1 -> Words]

MPH_runtime == [raw : Raws, raw_size : 0 .. StoreLen, pos : Positions]
MPH_result == [t : MPH_result_kind, data : Positions]

\* The MPH_morph, MPH_rule and MPH_cell values the caller passes.
MPH_morph == [op : MPH_op, args : 0 .. MaxArgs]
MPH_rule ==
    { [conds |-> [i \in 1 .. n |-> MPH_OP_ADD],
       morphs |-> [i \in 1 .. n |-> MPH_OP_ADD],
       len |-> n] : n \in 0 .. MaxLen }
MPH_cell == [size : 0 .. MaxCell]

\* The contents the caller's stores hold before the first call: each store is
\* filled with one word.
InitialStores ==
    { [s \in Raws |-> [i \in 0 .. StoreLen - 1 |-> w]] : w \in Words }

\* two holds a pair of further runtimes, each with its own result and each
\* bound to its own store, for the runs in which a caller uses two runtimes.
VARIABLES rt, mem, ret, inited, pc, nsteps, last, two
vars == <<rt, mem, ret, inited, pc, nsteps, last, two>>

\* ------------------------------------------------------- library functions
\* The outcome of a call: the runtime, the stores, the caller's result and the
\* arena indices the call read or wrote.
Outcome(r, m, res, acc) == [rt |-> r, mem |-> m, ret |-> res, acc |-> acc]

\* Variant: the memset is left out, so pos keeps its prior value.
MPH_rt_init_NoMemset(r, raw, raw_size) ==
    [r EXCEPT !.raw = raw, !.raw_size = raw_size]

\* memset(rt, 0, ...) then the two assignments: no word of the store is touched.
MPH_rt_init(r, raw, raw_size) ==
    [raw |-> raw, raw_size |-> raw_size, pos |-> 0]

\* Variant: the store is cleared too (memset(raw, 0, ...)).
MPH_rt_init_store_Zeroes(m, raw, raw_size) ==
    [m EXCEPT ![raw] = [i \in 0 .. StoreLen - 1 |->
                           IF i < raw_size THEN 0 ELSE m[raw][i]]]

\* The arena after MPH_rt_init: the memset clears *rt, not the store behind raw.
MPH_rt_init_store(m, raw, raw_size) == m

\* Variant: the cell's size is written over the first word of the arena.
MPH_rt_cell_Overwrite(r, m, c, res) ==
    Outcome(r, [m EXCEPT ![r.raw][0] = c.size],
            [res EXCEPT !.t = MPH_TOTALITY_FAULT], {0})

\* Variant: the cursor is moved past the cell before the fault is reported.
MPH_rt_cell_Advance(r, m, c, res) ==
    Outcome([r EXCEPT !.pos = r.pos + c.size], m,
            [res EXCEPT !.t = MPH_TOTALITY_FAULT], {})

\* Each function below writes ret->t only, unless noted; none dereferences raw.
MPH_rt_cell(r, m, c, res) ==
    Outcome(r, m, [res EXCEPT !.t = MPH_TOTALITY_FAULT], {})

\* Variant: appends whenever the words fit, without comparing args to the arity.
MPH_rt_morph_Append(r, m, mo, res) ==
    IF r.raw_size - r.pos >= 1 + mo.args
    THEN Outcome([r EXCEPT !.pos = r.pos + 1 + mo.args], m,
                 [t |-> MPH_OK, data |-> r.pos], {})
    ELSE Outcome(r, m, [res EXCEPT !.t = MPH_MEM_LOW], {})

MPH_rt_morph(r, m, mo, res) ==
    Outcome(r, m, [res EXCEPT !.t = MPH_TOTALITY_FAULT], {})

\* Variant: the loop body is rt->pos += 1.
RECURSIVE RuleLoop_Advance(_, _, _)
RuleLoop_Advance(pos, i, len) ==
    IF i < len THEN RuleLoop_Advance(pos + 1, i + 1, len) ELSE pos

\* for (i = 0; i < rule->len; i++) rt->pos += 0;
RECURSIVE RuleLoop(_, _, _)
RuleLoop(pos, i, len) ==
    IF i < len THEN RuleLoop(pos + 0, i + 1, len) ELSE pos

\* ret->data = rt->pos; ret->t = MPH_OK; the loop; ret->t = MPH_TOTALITY_FAULT.
MPH_rt_rule(r, m, rule, res) ==
    LET res1 == [t |-> MPH_OK, data |-> r.pos]
        r1 == [r EXCEPT !.pos = RuleLoop(r.pos, 0, rule.len)]
    IN Outcome(r1, m, [res1 EXCEPT !.t = MPH_TOTALITY_FAULT], {})

\* Variant: the step decodes the word at pos without a bounds check.
MPH_rt_step_Decode(r, m, res) ==
    Outcome(r, m, [res EXCEPT !.t = MPH_HALT], {r.pos})

\* Variant: the step reports pos as the return offset.
MPH_rt_step_SetsData(r, m, res) ==
    Outcome(r, m, [t |-> MPH_HALT, data |-> r.pos], {})

\* Variant: the step reads the word at pos of the arena bound last, kept in a
\* variable of the library, instead of the arena of the runtime it is given.
MPH_rt_step_SharedArena(r, m, res) ==
    LET shared == CHOOSE s \in Raws : \A u \in Raws : s >= u IN
    Outcome(r, m,
            [t |-> MPH_HALT,
             data |-> IF r.pos < StoreLen THEN m[shared][r.pos] ELSE res.data],
            {})

\* Variant: every step moves pos on and returns MPH_OK; MPH_HALT is never set.
MPH_rt_step_Advance(r, m, res) ==
    Outcome([r EXCEPT !.pos = IF r.pos < MaxPos THEN r.pos + 1 ELSE 0], m,
            [res EXCEPT !.t = MPH_OK], {})

MPH_rt_step(r, m, res) ==
    Outcome(r, m, [res EXCEPT !.t = MPH_HALT], {})

\* Variant: also stores rt->pos in ret->data, as MPH_rt_rule does.
MPH_rt_exec_SetsData(r, m, res) ==
    Outcome(r, m, [t |-> MPH_HALT, data |-> r.pos], {})

\* Variant: returns without assigning ret->t.
MPH_rt_exec_NoResult(r, m, res) ==
    Outcome(r, m, res, {})

MPH_rt_exec(r, m, res) ==
    Outcome(r, m, [res EXCEPT !.t = MPH_HALT], {})

\* "Iterates over MPH_rt_step until it reaches MPH_MEM_LOW or MPH_HALT": the
\* loop the documentation of MPH_rt_exec describes, cut off after fuel calls.
RECURSIVE IterateStep(_, _, _, _)
IterateStep(r, m, res, fuel) ==
    LET o == MPH_rt_step(r, m, res) IN
    IF o.ret.t \in {MPH_HALT, MPH_MEM_LOW} \/ fuel = 0
    THEN o
    ELSE IterateStep(o.rt, o.mem, o.ret, fuel - 1)

\* ---------------------------------------------------------------- the calls
NoArg == [raw |-> 0, raw_size |-> 0, op |-> 0, args |-> 0, len |-> 0,
          nconds |-> 0, nmorphs |-> 0, size |-> 0, pos |-> 0,
          entity |-> "none"]

\* What the caller starts the driver on: the morph or rule whose definition
\* call came immediately before (its offset is taken from ret.data), if any.
Started ==
    IF last.op \in {"morph", "rule"}
    THEN [last.arg EXCEPT !.pos = ret.data, !.entity = last.op]
    ELSE [NoArg EXCEPT !.pos = ret.data]

\* What a step of the driver is asked to evaluate: on the first step, the
\* entity the driver was started on.
Stepped == IF last.op = "start" THEN last.arg ELSE NoArg

Pre == [rt |-> rt, mem |-> mem, ret |-> ret, pc |-> pc]

Called(op, arg, acc) == [op |-> op, arg |-> arg, pre |-> Pre, acc |-> acc]

\* A zeroed runtime and result (memset(&ret, 0, sizeof(MPH_result))).
Zeroed(raw) ==
    [rt |-> [raw |-> raw, raw_size |-> 0, pos |-> 0],
     ret |-> [t |-> MPH_OK, data |-> 0]]
TwoUnused == [i \in Raws |-> Zeroed(i)]

\* MPH_runtime r; MPH_result ret; MPH_raw mem[...]: nothing is initialized
\* before MPH_rt_init, so the fields hold any value.
Init ==
    /\ rt \in MPH_runtime
    /\ mem \in InitialStores
    /\ ret \in MPH_result
    /\ inited = FALSE
    /\ pc = "caller"
    /\ nsteps = 0
    /\ last = [op |-> "none", arg |-> NoArg, pre |-> Pre, acc |-> {}]
    /\ two = TwoUnused

Apply(o, op, arg) ==
    /\ rt' = o.rt
    /\ mem' = o.mem
    /\ ret' = o.ret
    /\ last' = Called(op, arg, o.acc)

CallInit ==
    /\ pc # "loop"
    /\ \E raw \in Raws, raw_size \in 1 .. StoreLen :
        /\ rt' = MPH_rt_init(rt, raw, raw_size)
        /\ mem' = MPH_rt_init_store(mem, raw, raw_size)
        /\ last' = Called("init",
                          [NoArg EXCEPT !.raw = raw, !.raw_size = raw_size], {})
    /\ inited' = TRUE
    /\ UNCHANGED <<ret, pc, nsteps, two>>

CallCell ==
    /\ inited /\ pc # "loop"
    /\ \E c \in MPH_cell :
        Apply(MPH_rt_cell(rt, mem, c, ret), "cell", [NoArg EXCEPT !.size = c.size])
    /\ UNCHANGED <<inited, pc, nsteps, two>>

CallMorph ==
    /\ inited /\ pc # "loop"
    /\ \E mo \in MPH_morph :
        Apply(MPH_rt_morph(rt, mem, mo, ret), "morph",
              [NoArg EXCEPT !.op = mo.op, !.args = mo.args])
    /\ UNCHANGED <<inited, pc, nsteps, two>>

CallRule ==
    /\ inited /\ pc # "loop"
    /\ \E rule \in MPH_rule :
        Apply(MPH_rt_rule(rt, mem, rule, ret), "rule",
              [NoArg EXCEPT !.len = rule.len, !.nconds = Len(rule.conds),
                            !.nmorphs = Len(rule.morphs)])
    /\ UNCHANGED <<inited, pc, nsteps, two>>

CallStep ==
    /\ inited /\ pc # "loop"
    /\ Apply(MPH_rt_step(rt, mem, ret), "step", NoArg)
    /\ UNCHANGED <<inited, pc, nsteps, two>>

CallExec ==
    /\ inited /\ pc # "loop"
    /\ Apply(MPH_rt_exec(rt, mem, ret), "exec", NoArg)
    /\ UNCHANGED <<inited, pc, nsteps, two>>

\* The caller assigns the execution position (rt.pos = ...).
SetPos ==
    /\ inited /\ pc # "loop"
    /\ \E p \in Positions :
        /\ rt' = [rt EXCEPT !.pos = p]
        /\ last' = Called("setpos", [NoArg EXCEPT !.pos = p], {})
    /\ UNCHANGED <<mem, ret, inited, pc, nsteps, two>>

\* The documented driver: rt.pos = ret.data; while (step != HALT) { ... }
DriverStart ==
    /\ inited /\ pc = "caller"
    /\ rt' = [rt EXCEPT !.pos = ret.data]
    /\ pc' = "loop"
    /\ nsteps' = 0
    /\ last' = Called("start", Started, {})
    /\ UNCHANGED <<mem, ret, inited, two>>

DriverStep ==
    /\ pc = "loop"
    /\ LET o == MPH_rt_step(rt, mem, ret) IN
        /\ Apply(o, "step", Stepped)
        /\ pc' = IF o.ret.t # MPH_HALT THEN "loop" ELSE "caller"
    /\ nsteps' = IF nsteps < MaxSteps THEN nsteps + 1 ELSE nsteps
    /\ UNCHANGED <<inited, two>>

Next ==
    \/ CallInit
    \/ CallCell
    \/ CallMorph
    \/ CallRule
    \/ CallStep
    \/ CallExec
    \/ SetPos
    \/ DriverStart
    \/ DriverStep

Spec == Init /\ [][Next]_vars

\* The driver is a sequential C loop: once entered it keeps calling MPH_rt_step.
LiveSpec == Spec /\ WF_vars(DriverStep)

\* ----------------------------------------- two runtimes on disjoint stores
\* Runtime i is bound to store i; the caller interleaves calls on the two.
Other(i) == CHOOSE j \in Raws : j # i

\* The capacity the caller gives runtime i: the whole of store 1, one word of
\* store 2.
TwoSize(i) == IF i = 1 THEN StoreLen ELSE 1

TwoCalled(i, op) ==
    [who |-> i, op |-> op, other |-> two[Other(i)], mem |-> mem]

TwoApply(i, o, op) ==
    /\ two' = [two EXCEPT ![i] = [rt |-> o.rt, ret |-> o.ret]]
    /\ mem' = o.mem
    /\ last' = TwoCalled(i, op)
    /\ UNCHANGED <<rt, ret, inited, pc, nsteps>>

\* Both runtimes have been initialized on their stores; the results are zeroed.
InitTwo ==
    /\ rt = Zeroed(1).rt
    /\ ret = Zeroed(1).ret
    /\ inited = FALSE
    /\ pc = "caller"
    /\ nsteps = 0
    /\ mem \in InitialStores
    /\ two = [i \in Raws |->
                  [rt |-> MPH_rt_init(Zeroed(i).rt, i, TwoSize(i)),
                   ret |-> Zeroed(i).ret]]
    /\ last = [who |-> 0, op |-> "none", other |-> Zeroed(1), mem |-> mem]

TwoCallInit ==
    \E i \in Raws :
        TwoApply(i, Outcome(MPH_rt_init(two[i].rt, i, TwoSize(i)),
                            MPH_rt_init_store(mem, i, TwoSize(i)),
                            two[i].ret, {}),
                 "init")

TwoCallCell ==
    \E i \in Raws, c \in MPH_cell :
        TwoApply(i, MPH_rt_cell(two[i].rt, mem, c, two[i].ret), "cell")

TwoCallMorph ==
    \E i \in Raws, mo \in MPH_morph :
        TwoApply(i, MPH_rt_morph(two[i].rt, mem, mo, two[i].ret), "morph")

TwoCallRule ==
    \E i \in Raws, rule \in MPH_rule :
        TwoApply(i, MPH_rt_rule(two[i].rt, mem, rule, two[i].ret), "rule")

TwoCallStep ==
    \E i \in Raws :
        TwoApply(i, MPH_rt_step(two[i].rt, mem, two[i].ret), "step")

TwoCallExec ==
    \E i \in Raws :
        TwoApply(i, MPH_rt_exec(two[i].rt, mem, two[i].ret), "exec")

\* The caller assigns the execution position of one of the runtimes.
TwoSetPos ==
    \E i \in Raws, p \in Positions :
        TwoApply(i, Outcome([two[i].rt EXCEPT !.pos = p], mem, two[i].ret, {}),
                 "setpos")

NextTwo ==
    \/ TwoCallInit
    \/ TwoCallCell
    \/ TwoCallMorph
    \/ TwoCallRule
    \/ TwoCallStep
    \/ TwoCallExec
    \/ TwoSetPos

TwoSpec == InitTwo /\ [][NextTwo]_vars

\* ------------------------------------------------------------------ claims
\* What the last call was given and what it found.
Remaining == last.pre.rt.raw_size - last.pre.rt.pos
RuntimeUnchanged == rt = last.pre.rt /\ mem = last.pre.mem
\* Words an encoded morph takes: the operator and its operands.
MorphWords == 1 + last.arg.args
\* Words an encoded rule takes: one per condition, one per action, the default.
RuleWords == last.arg.nconds + last.arg.nmorphs + 1
ValidMorph == last.op = "morph" /\ last.arg.args = Arity(last.arg.op)
BalancedRule == last.op = "rule" /\ last.arg.nconds = last.arg.nmorphs

\* C1: immediately after MPH_rt_init(rt, raw, C), from any prior runtime state,
\* pos is 0, raw is the given store and raw_size is C.
C1_InitResets ==
    last.op = "init" =>
        /\ rt.pos = 0
        /\ rt.raw = last.arg.raw
        /\ rt.raw_size = last.arg.raw_size

\* An init that acted on a runtime with a non-zero pos bound to another store.
C1_Witness ==
    /\ last.op = "init"
    /\ last.pre.rt.pos # 0
    /\ last.pre.rt.raw # last.arg.raw
    /\ last.pre.rt.raw_size # last.arg.raw_size

\* C2: MPH_rt_rule on an initialized runtime with enough free capacity, for a
\* rule with as many conditions as actions, returns MPH_OK with data the offset
\* of the new rule.
C2_RuleSucceeds ==
    (BalancedRule /\ last.arg.len >= 1 /\ Remaining >= RuleWords) =>
        /\ ret.t = MPH_OK
        /\ ret.data = last.pre.rt.pos

\* C3: a definition call whose encoding needs L words when fewer than L remain
\* returns MPH_MEM_LOW with payload L minus the remaining capacity, and leaves
\* the arena and the cursor as they were.
C3_MemLow ==
    /\ (ValidMorph /\ 0 <= Remaining /\ Remaining < MorphWords) =>
        /\ ret.t = MPH_MEM_LOW
        /\ ret.data = MorphWords - Remaining
        /\ RuntimeUnchanged
    /\ (BalancedRule /\ 0 <= Remaining /\ Remaining < RuleWords) =>
        /\ ret.t = MPH_MEM_LOW
        /\ ret.data = RuleWords - Remaining
        /\ RuntimeUnchanged

\* C4: MPH_rt_morph with an operand count different from the operator's arity
\* returns MPH_TOTALITY_FAULT and does not advance the cursor.
C4_ArityFault ==
    (last.op = "morph" /\ last.arg.args # Arity(last.arg.op)) =>
        /\ ret.t = MPH_TOTALITY_FAULT
        /\ rt.pos = last.pre.rt.pos

\* A binary operator given one operand where the capacity would have sufficed
\* and the result held another kind before the call.
C4_Witness ==
    /\ last.op = "morph"
    /\ last.arg.op = MPH_OP_ADD
    /\ last.arg.args = 1
    /\ Remaining >= MorphWords
    /\ last.pre.ret.t = MPH_OK

\* C5: MPH_rt_morph with a valid morph and at least 1 + arity free words
\* returns MPH_OK with data the cursor before the call, and the cursor advances
\* by the morph's encoded length.
C5_MorphSucceeds ==
    (ValidMorph /\ Remaining >= MorphWords) =>
        /\ ret.t = MPH_OK
        /\ ret.data = last.pre.rt.pos
        /\ rt.pos = last.pre.rt.pos + MorphWords

\* The word the arena held at the position the call started from.
InArena(p) == p \in 0 .. StoreLen - 1
WordAt(p) == last.pre.mem[last.pre.rt.raw][p]
\* The position a step moves to: the JMP target, or the position after the
\* executed entity.
NextOffset ==
    LET p == last.pre.rt.pos IN
    IF WordAt(p) = MPH_OP_JMP THEN WordAt(p + 1) ELSE p + 1 + Arity(WordAt(p))

\* C6: whenever MPH_rt_step returns MPH_OK, pos is the next instruction offset
\* (the JMP target, else the position after the executed entity); MPH_HALT is
\* returned only when the terminal marker is reached at that position, that is
\* only after the evaluator has decoded the word at pos.
C6_StepAdvances ==
    last.op = "step" =>
        /\ ret.t = MPH_OK =>
            /\ InArena(last.pre.rt.pos)
            /\ InArena(last.pre.rt.pos + 1)
            /\ rt.pos = NextOffset
        /\ ret.t = MPH_HALT => last.pre.rt.pos \in last.acc

\* C7: a call of MPH_rt_cell, MPH_rt_morph, MPH_rt_rule or MPH_rt_step that
\* returns MPH_MEM_LOW or MPH_TOTALITY_FAULT leaves pos, raw_size and every
\* word of the arena as they were.
C7_FaultLeavesRuntime ==
    (/\ last.op \in {"cell", "morph", "rule", "step"}
     /\ ret.t \in {MPH_MEM_LOW, MPH_TOTALITY_FAULT}) => RuntimeUnchanged

\* A rule whose loop ran (len > 0) and that returned a fault.
C7_Witness ==
    /\ last.op = "rule"
    /\ last.arg.len = MaxLen
    /\ ret.t = MPH_TOTALITY_FAULT
    /\ last.pre.rt.pos # 0

\* The last call was the MPH_rt_step that ended the driver loop.
DriverFinished ==
    last.op = "step" /\ last.pre.pc = "loop" /\ pc = "caller"

C9_ExecIsIteratedStep ==
    last.op = "exec" =>
        LET o == IterateStep(last.pre.rt, last.pre.mem, last.pre.ret, MaxSteps)
        IN /\ ret.t = o.ret.t
           /\ ret.data = o.ret.data
           /\ rt = o.rt
           /\ mem = o.mem

\* An exec that changed the result, with a payload that is not the position.
C9_Witness ==
    /\ last.op = "exec"
    /\ last.pre.ret.t = MPH_TOTALITY_FAULT
    /\ last.pre.ret.data # last.pre.rt.pos
    /\ ret.t = MPH_HALT

\* C10: from every runtime state, also one whose pos designates no entity, the
\* result kind of MPH_rt_exec is MPH_HALT or MPH_MEM_LOW.
C10_ExecTerminalOnly ==
    last.op = "exec" => ret.t \in {MPH_HALT, MPH_MEM_LOW}

\* An exec from a position beyond the arena, with MPH_OK in the result before.
C10_Witness ==
    /\ last.op = "exec"
    /\ last.pre.rt.pos >= last.pre.rt.raw_size
    /\ last.pre.ret.t = MPH_OK

\* The last call was the first step of a driver started on the entity that the
\* definition call just before it was asked to define.
SteppedAt(kind) == last.op = "step" /\ last.arg.entity = kind

\* C11: stepping an encoded rule evaluates its conditions in order and executes
\* exactly one action (that of the first true condition, else the default):
\* where the arena has room for the rule and a result cell, the step decodes
\* the first condition at the rule's offset and ends with MPH_OK, or with
\* MPH_HALT when the composition ends there.
C11_RuleEvaluated ==
    (SteppedAt("rule") /\ last.arg.len >= 1 /\ Remaining >= RuleWords + 1) =>
        /\ last.pre.rt.pos \in last.acc
        /\ ret.t \in {MPH_OK, MPH_HALT}

\* C12: stepping at an unresolved offset (here: at or beyond the end of the
\* arena) returns MPH_TOTALITY_FAULT carrying the offending offset and changes
\* neither pos nor the arena.
C12_UnresolvedFaults ==
    (last.op = "step" /\ last.pre.rt.pos >= last.pre.rt.raw_size) =>
        /\ ret.t = MPH_TOTALITY_FAULT
        /\ ret.data = last.pre.rt.pos
        /\ RuntimeUnchanged

\* C13: encoding an ADD morph with two operands, setting pos to its offset and
\* stepping yields, where the arena has room for the morph and a result cell,
\* MPH_OK with the offset of a result cell that holds the sum of the two operand
\* words following the operator.
C13_AddSums ==
    (/\ SteppedAt("morph") /\ last.arg.op = MPH_OP_ADD /\ last.arg.args = 2
     /\ Remaining >= MorphWords + 1) =>
        /\ ret.t = MPH_OK
        /\ InArena(ret.data)
        /\ InArena(last.pre.rt.pos + 2)
        /\ mem[rt.raw][ret.data] =
               WordAt(last.pre.rt.pos + 1) + WordAt(last.pre.rt.pos + 2)

LibraryCall == last.op \in {"cell", "morph", "rule", "step", "exec"}

\* C14: across MPH_rt_cell, MPH_rt_morph, MPH_rt_rule, MPH_rt_step and
\* MPH_rt_exec the arena is append-only: no word below the cursor changes and
\* the cursor does not decrease.
C14_AppendOnly ==
    LibraryCall =>
        /\ rt.pos >= last.pre.rt.pos
        /\ \A s \in Raws : \A i \in 0 .. StoreLen - 1 :
               i < last.pre.rt.pos => mem[s][i] = last.pre.mem[s][i]

\* A definition call made with the cursor past the first words of the arena.
C14_Witness ==
    /\ last.op = "cell"
    /\ last.arg.size = MaxCell
    /\ last.pre.rt.pos >= 1
    /\ last.pre.rt.pos <= last.pre.rt.raw_size

\* C15: no definition call (MPH_rt_cell, MPH_rt_morph, MPH_rt_rule) changes
\* rt->pos, whatever it returns.
C15_DefinitionsKeepPos ==
    last.op \in {"cell", "morph", "rule"} => rt.pos = last.pre.rt.pos

\* A valid morph defined where there was room for it.
C15_Witness ==
    /\ ValidMorph
    /\ last.arg.op = MPH_OP_CMP
    /\ Remaining >= MorphWords

C18_InitIsReset ==
    last.op = "init" =>
        /\ \A fresh \in MPH_runtime :
               rt = MPH_rt_init(fresh, last.arg.raw, last.arg.raw_size)
        /\ MPH_rt_init(rt, last.arg.raw, last.arg.raw_size) = rt
        /\ mem = last.pre.mem
        /\ MPH_rt_init_store(mem, last.arg.raw, last.arg.raw_size) = mem

\* A re-initialization over a store whose words are not zero.
C18_Witness ==
    /\ last.op = "init"
    /\ last.pre.rt.pos = MaxPos
    /\ \A i \in 0 .. StoreLen - 1 : mem[rt.raw][i] # 0

\* C19: no library call reads or writes the store at an index at or beyond
\* raw_size, for any rule length and any caller-set pos.
C19_AccessInBounds ==
    LibraryCall => \A i \in last.acc : 0 <= i /\ i < last.pre.rt.raw_size

\* A step from a caller-set position beyond the arena.
C19_Witness ==
    /\ last.op = "step"
    /\ last.pre.rt.pos > last.pre.rt.raw_size
    /\ last.pre.rt.raw_size < StoreLen

\* The stores as they would be had the other runtime's store other contents.
Foreign(i) ==
    { [mem EXCEPT ![Other(i)] = [k \in 0 .. StoreLen - 1 |-> w]] : w \in Words }
\* Two outcomes agree on everything that belongs to runtime i.
SameFor(i, o1, o2) ==
    /\ o1.rt = o2.rt
    /\ o1.ret = o2.ret
    /\ o1.acc = o2.acc
    /\ o1.mem[i] = o2.mem[i]
\* Every call on runtime i gives what it gives whatever the other store holds.
AsIfAlone(i) ==
    LET r == two[i].rt
        res == two[i].ret
    IN \A m2 \in Foreign(i) :
        /\ MPH_rt_init_store(mem, i, TwoSize(i))[i] =
               MPH_rt_init_store(m2, i, TwoSize(i))[i]
        /\ \A c \in MPH_cell :
               SameFor(i, MPH_rt_cell(r, mem, c, res), MPH_rt_cell(r, m2, c, res))
        /\ \A mo \in MPH_morph :
               SameFor(i, MPH_rt_morph(r, mem, mo, res),
                          MPH_rt_morph(r, m2, mo, res))
        /\ \A rule \in MPH_rule :
               SameFor(i, MPH_rt_rule(r, mem, rule, res),
                          MPH_rt_rule(r, m2, rule, res))
        /\ SameFor(i, MPH_rt_step(r, mem, res), MPH_rt_step(r, m2, res))
        /\ SameFor(i, MPH_rt_exec(r, mem, res), MPH_rt_exec(r, m2, res))

\* C16: two runtimes bound to disjoint stores are independent under every
\* interleaving: a call on one leaves the other's pos, raw_size, result and
\* arena unchanged, and gives the results it would give had it run alone.
C16_Independent ==
    /\ last.op # "none" =>
        /\ two[Other(last.who)] = last.other
        /\ mem[Other(last.who)] = last.mem[Other(last.who)]
    /\ \A i \in Raws : AsIfAlone(i)

\* A step on one runtime after the other runtime was given a rule at a
\* position of its own, the two stores holding non-zero words.
C16_Witness ==
    /\ last.op = "step"
    /\ two[Other(last.who)].ret.t = MPH_TOTALITY_FAULT
    /\ two[Other(last.who)].ret.data # 0
    /\ two[last.who].rt.pos # two[Other(last.who)].rt.pos
    /\ \A i \in Raws : mem[i][0] # 0

TypeOK ==
    /\ rt \in MPH_runtime
    /\ ret \in MPH_result
    /\ mem \in [Raws -> Store]
    /\ inited \in BOOLEAN
    /\ pc \in {"caller", "loop"}
    /\ nsteps \in 0 .. MaxSteps
====
